---- MODULE Spec2Model ----
(***************************************************************************)
(* Group-assignment generator (src/src/lib.rs).                            *)
(*                                                                         *)
(* Vertices are the indices 0..n-1.  The conflict matrix Vec<BitVec> is a   *)
(* function from row index to a row, a row being a function from column     *)
(* index to BOOLEAN; rows may have different lengths (a non-square         *)
(* matrix).  A Group (Vec<usize>) is a sequence of vertex indices, a round  *)
(* a sequence of groups, an assignment a sequence of rounds.                *)
(*                                                                         *)
(* potential_groups and single_assignment run to completion inside one     *)
(* step of their caller; they are operators that thread the matrix they    *)
(* mutate.  group_sizes and the round recursion of make_assignments are    *)
(* step machines.                                                          *)
(*                                                                         *)
(* Rust evaluates an argument once, before the call.  Where an operator    *)
(* uses an argument more than once it is bound to its value first:         *)
(*   CHOOSE y \in {body(x) : x \in {v}} : TRUE   is body applied to v.      *)
(***************************************************************************)
EXTENDS Integers, Sequences, FiniteSets, TLC

\* Largest number of vertices of a conflict matrix.
MaxN == 4
\* Largest number of conflicting pairs the caller supplies.
MaxPre == 2
\* Largest vertex count handed to a direct call of group_sizes.
MaxSizeN == 12

VARIABLES
    call,            \* the public function the caller invoked
    pc,              \* position inside that call
    run,             \* 1 for the call, 2 for its repetition on the same matrix
    conflicts,       \* conflicts: &mut Vec<BitVec>
    conflicts0,      \* the matrix as the caller supplied it (history)
    k,               \* potential_groups: k
    skip,            \* potential_groups: skip
    min_group_size,  \* make_assignments / group_sizes: min_group_size
    n,               \* group_sizes: n
    remaining,       \* group_sizes: remaining
    sizes,           \* group_sizes: sizes
    i,               \* group_sizes: index of the inner for loop
    group_sizes,     \* the size plan of a round
    sols,            \* make_assignments: sols
    curr,            \* make_assignments: curr
    best,            \* make_assignments: best
    stack,           \* make_assignments::backtrack: live frames (options, position)
    res,             \* value returned by potential_groups / single_assignment
    first,           \* value returned by the first of two make_assignments calls
    err              \* panic message, "" when none

vars == <<call, pc, run, conflicts, conflicts0, k, skip, min_group_size, n,
          remaining, sizes, i, group_sizes, sols, curr, best, stack, res,
          first, err>>

----------------------------------------------------------------------------
(* Helpers on sequences and matrices *)

Range(s) == {s[x] : x \in 1..Len(s)}

NRows(c) == Cardinality(DOMAIN c)

RowLen(c, r) == Cardinality(DOMAIN c[r])

\* Square with the dimension check left out.
Square_unchecked(c) == TRUE

\* conflicts.iter().all(|v| v.len() == conflicts.len())
Square(c) == \A r \in DOMAIN c : RowLen(c, r) = NRows(c)

\* min_group_size <= conflicts.len()
FitsPopulation(m, c) == m <= NRows(c)

\* add_conflicts_between marking nothing.
add_conflicts_between_nothing(c, between) == c

add_conflicts_between(c, between) ==
    LET write(m) ==
          [a \in DOMAIN m |-> [b \in DOMAIN m[a] |->
              IF a \in Range(between) /\ b \in Range(between) THEN TRUE ELSE m[a][b]]]
    IN CHOOSE y \in {write(x) : x \in {c}} : TRUE

\* remove_conflicts_between leaving the committed conflicts in place.
remove_conflicts_between_nothing(c, between) == c

remove_conflicts_between(c, between) ==
    LET write(m) ==
          [a \in DOMAIN m |-> [b \in DOMAIN m[a] |->
              IF a \in Range(between) /\ b \in Range(between) THEN FALSE ELSE m[a][b]]]
    IN CHOOSE y \in {write(x) : x \in {c}} : TRUE

add_conflicts(c, col, rows) ==
    LET write(m) ==
          [a \in DOMAIN m |-> [b \in DOMAIN m[a] |->
              IF (a \in Range(rows) /\ b = col) \/ (a = col /\ b \in Range(rows)) THEN TRUE ELSE m[a][b]]]
    IN CHOOSE y \in {write(x) : x \in {c}} : TRUE

remove_conflicts(c, col, rows) ==
    LET write(m) ==
          [a \in DOMAIN m |-> [b \in DOMAIN m[a] |->
              IF (a \in Range(rows) /\ b = col) \/ (a = col /\ b \in Range(rows)) THEN FALSE ELSE m[a][b]]]
    IN CHOOSE y \in {write(x) : x \in {c}} : TRUE

----------------------------------------------------------------------------
(* potential_groups *)

\* is_valid looking only at the member added last.
is_valid_last(c, cur, col) == ~c[cur[Len(cur)]][col]

\* curr.iter().all(|row| !conflicts[*row][col])
is_valid(c, cur, col) == \A x \in 1..Len(cur) : ~c[cur[x]][col]

RECURSIVE PGCols(_, _, _, _, _, _)

\* potential_groups::backtrack; st = [conflicts, sols]
PGBacktrack(st, cur, row, nn, kk, sk) == PGCols(st, cur, row + 1, nn, kk, sk)

\* The iterations col, col+1, .. n-1 of the for loop of backtrack.
PGCols(st0, cur, col, nn, kk, sk) ==
    LET body(st) ==
          IF col >= nn THEN st
          ELSE IF sk[col] THEN PGCols(st, cur, col + 1, nn, kk, sk)
          ELSE IF is_valid(st.conflicts, cur, col)
          THEN LET cur1 == Append(cur, col)
                   st1 ==
                     IF Len(cur1) = kk
                     THEN [st EXCEPT !.sols = Append(@, cur1)]
                     ELSE LET added == add_conflicts(st.conflicts, col, cur1)
                              r == PGBacktrack([st EXCEPT !.conflicts = added],
                                               cur1, col, nn, kk, sk)
                          IN [conflicts |-> remove_conflicts(r.conflicts, col, cur1),
                              sols |-> r.sols]
               IN PGCols(st1, cur, col + 1, nn, kk, sk)
          ELSE PGCols(st, cur, col + 1, nn, kk, sk)
    IN CHOOSE y \in {body(x) : x \in {st0}} : TRUE

RECURSIVE PGRows(_, _, _, _, _)
\* The iterations row, row+1, .. n-1 of the for loop of potential_groups.
PGRows(st0, row, nn, kk, sk) ==
    LET body(st) ==
          IF row >= nn THEN st
          ELSE IF sk[row] THEN PGRows(st, row + 1, nn, kk, sk)
          ELSE PGRows(PGBacktrack(st, <<row>>, row, nn, kk, sk), row + 1, nn, kk, sk)
    IN CHOOSE y \in {body(x) : x \in {st0}} : TRUE

\* Returns the groups (sols) and the matrix as the call leaves it.
potential_groups(c, kk, sk) ==
    PGRows([conflicts |-> c, sols |-> <<>>], 0, NRows(c), kk, sk)

----------------------------------------------------------------------------
(* single_assignment *)

\* MarkSkip marking nothing.
MarkSkip_nothing(sk, g) == sk

\* for e in &g { skip.set(*e, true) }
MarkSkip(sk, g) == [e \in DOMAIN sk |-> IF e \in Range(g) THEN TRUE ELSE sk[e]]

\* for e in g { skip.set(e, false) }
ClearSkip(sk, g) == [e \in DOMAIN sk |-> IF e \in Range(g) THEN FALSE ELSE sk[e]]

RECURSIVE SABacktrack(_, _, _)
RECURSIVE SAGroups(_, _, _, _, _)

\* single_assignment::backtrack; st = [conflicts, sols, skip]
SABacktrack(st0, cur, gs) ==
    LET kk == gs[Len(cur) + 1]
        loop(st) ==
          LET over(pg) ==
                SAGroups([st EXCEPT !.conflicts = pg.conflicts], cur, gs, pg.sols, 1)
          IN CHOOSE y \in {over(x) : x \in {potential_groups(st.conflicts, kk, st.skip)}} : TRUE
    IN CHOOSE y \in {loop(x) : x \in {st0}} : TRUE

\* The iterations gi, gi+1, .. of the for loop over the groups.
SAGroups(st0, cur, gs, groups, gi) ==
    LET body(st) ==
          IF gi > Len(groups) THEN st
          ELSE LET g == groups[gi]
                   st1 ==
                     IF Len(cur) = Len(gs) - 1
                     THEN [st EXCEPT !.sols = Append(@, Append(cur, g))]
                     ELSE LET undo(r) == [r EXCEPT !.skip = ClearSkip(r.skip, g)]
                              called == SABacktrack([st EXCEPT !.skip = MarkSkip(st.skip, g)],
                                                    Append(cur, g), gs)
                          IN CHOOSE y \in {undo(x) : x \in {called}} : TRUE
               IN SAGroups(st1, cur, gs, groups, gi + 1)
    IN CHOOSE y \in {body(x) : x \in {st0}} : TRUE

\* Returns the rounds (sols) and the matrix as the call leaves it.
single_assignment(c, gs) ==
    LET ret(r) == [conflicts |-> r.conflicts, sols |-> r.sols]
        called == SABacktrack([conflicts |-> c, sols |-> <<>>,
                               skip |-> [e \in 0..(NRows(c) - 1) |-> FALSE]],
                              <<>>, gs)
    IN CHOOSE y \in {ret(x) : x \in {called}} : TRUE

----------------------------------------------------------------------------
(* The caller's inputs *)

Vertices(nn) == 0..(nn - 1)

PairsOf(nn) == {p \in Vertices(nn) \X Vertices(nn) : p[1] < p[2]}

\* The nn x nn symmetric matrix with the pairs P conflicting and every
\* diagonal entry d.
Matrix(nn, P, d) ==
    [a \in Vertices(nn) |-> [b \in Vertices(nn) |->
        IF a = b THEN d ELSE (<<a, b>> \in P \/ <<b, a>> \in P)]]

\* tests::diagonal
diagonal(nn) == Matrix(nn, {}, TRUE)

WellFormedInputs ==
    UNION {{Matrix(nn, P, d) : d \in BOOLEAN,
                               P \in {Q \in SUBSET PairsOf(nn) : Cardinality(Q) <= MaxPre}}
           : nn \in 1..MaxN}

\* Matrices with a row that is longer or shorter than the number of rows.
NonSquareInputs ==
    UNION {{[a \in Vertices(nn) |-> [b \in Vertices(nn + 1) |-> FALSE]],
            [a \in Vertices(nn) |->
                [b \in Vertices(IF a = 0 THEN nn - 1 ELSE nn) |-> FALSE]]}
           : nn \in 1..MaxN}

\* Square matrices with exactly one directed conflict a -> b.
AsymmetricInputs ==
    UNION {{[a \in Vertices(nn) |-> [b \in Vertices(nn) |-> <<a, b>> = p]]
            : p \in {q \in Vertices(nn) \X Vertices(nn) : q[1] # q[2]}}
           : nn \in 2..MaxN}

EmptyInput == [a \in {} |-> [b \in {} |-> FALSE]]

RECURSIVE Compositions(_)
\* The size plans that sum to nn.
Compositions(nn) ==
    IF nn = 0 THEN {<<>>}
    ELSE UNION {{<<a>> \o s : s \in Compositions(nn - a)} : a \in 1..nn}

NoSkip(nn) == [e \in Vertices(nn) |-> FALSE]

----------------------------------------------------------------------------
(* Initial states: one call of a public function with its arguments *)

Locals ==
    /\ run = 1
    /\ remaining = 0
    /\ sizes = <<>>
    /\ i = 0
    /\ sols = <<>>
    /\ curr = <<>>
    /\ best = 0
    /\ stack = <<>>
    /\ res = <<>>
    /\ first = <<>>
    /\ err = ""

InitPotentialGroups ==
    /\ call = "potential_groups"
    /\ pc = "pg_entry"
    /\ conflicts \in WellFormedInputs
    /\ conflicts0 = conflicts
    /\ k \in 1..MaxN
    /\ skip \in [DOMAIN conflicts -> BOOLEAN]
    /\ min_group_size = 0
    /\ n = 0
    /\ group_sizes = <<>>
    /\ Locals

InitSingleAssignment ==
    /\ call = "single_assignment"
    /\ pc = "sa_entry"
    /\ conflicts \in WellFormedInputs
    /\ conflicts0 = conflicts
    /\ group_sizes \in Compositions(NRows(conflicts))
    /\ k = 0
    /\ skip = <<>>
    /\ min_group_size = 0
    /\ n = 0
    /\ Locals

InitGroupSizes ==
    /\ call = "group_sizes"
    /\ pc = "gs_entry"
    /\ conflicts = EmptyInput
    /\ conflicts0 = conflicts
    /\ n \in 0..MaxSizeN
    /\ min_group_size \in 0..(MaxSizeN + 1)
    /\ k = 0
    /\ skip = <<>>
    /\ group_sizes = <<>>
    /\ Locals

InitMakeAssignments ==
    /\ call = "make_assignments"
    /\ pc = "ma_entry"
    /\ conflicts \in WellFormedInputs \cup NonSquareInputs
                     \cup AsymmetricInputs \cup {EmptyInput}
    /\ conflicts0 = conflicts
    /\ min_group_size \in 0..(MaxN + 1)
    /\ n = 0
    /\ k = 0
    /\ skip = <<>>
    /\ group_sizes = <<>>
    /\ Locals

Init ==
    \/ InitPotentialGroups
    \/ InitSingleAssignment
    \/ InitGroupSizes
    \/ InitMakeAssignments

----------------------------------------------------------------------------
(* potential_groups and single_assignment called directly *)

PG_Call ==
    /\ pc = "pg_entry"
    /\ LET r == potential_groups(conflicts, k, skip)
       IN /\ res' = r.sols
          /\ conflicts' = r.conflicts
    /\ pc' = "done"
    /\ UNCHANGED <<call, run, conflicts0, k, skip, min_group_size, n, remaining,
                   sizes, i, group_sizes, sols, curr, best, stack, first, err>>

SA_Call ==
    /\ pc = "sa_entry"
    /\ LET r == single_assignment(conflicts, group_sizes)
       IN /\ res' = r.sols
          /\ conflicts' = r.conflicts
    /\ pc' = "done"
    /\ UNCHANGED <<call, run, conflicts0, k, skip, min_group_size, n, remaining,
                   sizes, i, group_sizes, sols, curr, best, stack, first, err>>

----------------------------------------------------------------------------
(* group_sizes *)

\* Leftover taking one group off the population instead of the remainder.
Leftover_difference(nn, m) == nn - m

\* n % min_group_size
Leftover(nn, m) == nn % m

\* vec![min_group_size; n / min_group_size]
BaseSizes(nn, m) == [x \in 1..(nn \div m) |-> m]

\* Division by zero panics before anything is computed.
GS_DivideByZero ==
    /\ pc = "gs_entry"
    /\ min_group_size = 0
    /\ pc' = "panic"
    /\ err' = "attempt to calculate the remainder with a divisor of zero"
    /\ UNCHANGED <<call, run, conflicts, conflicts0, k, skip, min_group_size, n,
                   remaining, sizes, i, group_sizes, sols, curr, best, stack,
                   res, first>>

\* Lines 179-183: the base plan, returned at once when it is empty.
GS_Start ==
    /\ pc = "gs_entry"
    /\ min_group_size > 0
    /\ remaining' = Leftover(n, min_group_size)
    /\ sizes' = BaseSizes(n, min_group_size)
    /\ i' = 0
    /\ pc' = IF sizes' = <<>> THEN "gs_return" ELSE "gs_loop"
    /\ UNCHANGED <<call, run, conflicts, conflicts0, k, skip, min_group_size, n,
                   group_sizes, sols, curr, best, stack, res, first, err>>

\* One iteration of the inner for loop; the outer loop restarts it at 0.
GS_Step ==
    /\ pc = "gs_loop"
    /\ remaining # 0
    /\ sizes' = [sizes EXCEPT ![i + 1] = @ + 1]
    /\ remaining' = remaining - 1
    /\ i' = IF i + 1 < Len(sizes) THEN i + 1 ELSE 0
    /\ UNCHANGED <<call, pc, run, conflicts, conflicts0, k, skip, min_group_size,
                   n, group_sizes, sols, curr, best, stack, res, first, err>>

\* break 'outer sizes
GS_Break ==
    /\ pc = "gs_loop"
    /\ remaining = 0
    /\ pc' = "gs_return"
    /\ UNCHANGED <<call, run, conflicts, conflicts0, k, skip, min_group_size, n,
                   remaining, sizes, i, group_sizes, sols, curr, best, stack,
                   res, first, err>>

\* The plan reaches the caller: the outside world, or make_assignments.
GS_Return ==
    /\ pc = "gs_return"
    /\ group_sizes' = sizes
    /\ pc' = IF call = "make_assignments" THEN "backtrack" ELSE "done"
    /\ UNCHANGED <<call, run, conflicts, conflicts0, k, skip, min_group_size, n,
                   remaining, sizes, i, sols, curr, best, stack, res, first, err>>

----------------------------------------------------------------------------
(* make_assignments *)

\* The three assertions at the top of make_assignments, in order.
AssertFailure(c, m) ==
    IF ~(NRows(c) > 0) THEN "Cannot make groups from 0 vertices."
    ELSE IF ~Square(c)
    THEN "Conflicts matrix must have matching dimensions (N x N)"
    ELSE IF ~FitsPopulation(m, c)
    THEN "Cannot require groups larger than the number of potential vertices."
    ELSE ""

MA_Panic ==
    /\ pc = "ma_entry"
    /\ AssertFailure(conflicts, min_group_size) # ""
    /\ err' = AssertFailure(conflicts, min_group_size)
    /\ pc' = "panic"
    /\ UNCHANGED <<call, run, conflicts, conflicts0, k, skip, min_group_size, n,
                   remaining, sizes, i, group_sizes, sols, curr, best, stack,
                   res, first>>

\* Lines 156-159: the locals, then group_sizes(conflicts.len(), min_group_size).
MA_Start ==
    /\ pc = "ma_entry"
    /\ AssertFailure(conflicts, min_group_size) = ""
    /\ sols' = <<>>
    /\ curr' = <<>>
    /\ best' = 0
    /\ n' = NRows(conflicts)
    /\ pc' = "gs_entry"
    /\ UNCHANGED <<call, run, conflicts, conflicts0, k, skip, min_group_size,
                   remaining, sizes, i, group_sizes, stack, res, first, err>>

RECURSIVE CommitFrom(_, _, _)
\* for g in &opt { add_conflicts_between(conflicts, g) }
CommitFrom(c, opt, gi) ==
    IF gi > Len(opt) THEN c
    ELSE CommitFrom(add_conflicts_between(c, opt[gi]), opt, gi + 1)

RECURSIVE UndoFrom(_, _, _)
\* for g in &opt { remove_conflicts_between(conflicts, g) }
UndoFrom(c, opt, gi) ==
    IF gi > Len(opt) THEN c
    ELSE UndoFrom(remove_conflicts_between(c, opt[gi]), opt, gi + 1)

\* Entry of backtrack with no round left to append and curr at least as
\* long as best: curr is recorded.
BT_Record ==
    /\ pc = "backtrack"
    /\ LET r == single_assignment(conflicts, group_sizes)
       IN /\ r.sols = <<>>
          /\ Len(curr) >= best
          /\ conflicts' = r.conflicts
    /\ sols' = Append(IF Len(curr) > best THEN <<>> ELSE sols, curr)
    /\ best' = Len(curr)
    /\ pc' = "bt_return"
    /\ UNCHANGED <<call, run, conflicts0, k, skip, min_group_size, n, remaining,
                   sizes, i, group_sizes, curr, stack, res, first, err>>

\* Entry of backtrack otherwise: the for loop over options begins.
BT_Options ==
    /\ pc = "backtrack"
    /\ LET r == single_assignment(conflicts, group_sizes)
       IN /\ ~(r.sols = <<>> /\ Len(curr) >= best)
          /\ conflicts' = r.conflicts
          /\ stack' = Append(stack, [options |-> r.sols, idx |-> 1])
    /\ pc' = "bt_loop"
    /\ UNCHANGED <<call, run, conflicts0, k, skip, min_group_size, n, remaining,
                   sizes, i, group_sizes, sols, curr, best, res, first, err>>

\* Lines 143-147: the next option is committed and backtrack is called.
BT_Commit ==
    /\ pc = "bt_loop"
    /\ LET top == stack[Len(stack)]
       IN /\ top.idx <= Len(top.options)
          /\ conflicts' = CommitFrom(conflicts, top.options[top.idx], 1)
          /\ curr' = Append(curr, top.options[top.idx])
    /\ pc' = "backtrack"
    /\ UNCHANGED <<call, run, conflicts0, k, skip, min_group_size, n, remaining,
                   sizes, i, group_sizes, sols, best, stack, res, first, err>>

\* The for loop over options is exhausted: this frame of backtrack returns.
BT_LoopEnd ==
    /\ pc = "bt_loop"
    /\ stack[Len(stack)].idx > Len(stack[Len(stack)].options)
    /\ stack' = SubSeq(stack, 1, Len(stack) - 1)
    /\ pc' = "bt_return"
    /\ UNCHANGED <<call, run, conflicts, conflicts0, k, skip, min_group_size, n,
                   remaining, sizes, i, group_sizes, sols, curr, best, res,
                   first, err>>

\* Lines 148-152: back in the calling frame, the round is popped and undone.
BT_Undo ==
    /\ pc = "bt_return"
    /\ stack # <<>>
    /\ conflicts' = UndoFrom(conflicts, curr[Len(curr)], 1)
    /\ curr' = SubSeq(curr, 1, Len(curr) - 1)
    /\ stack' = [stack EXCEPT ![Len(stack)].idx = @ + 1]
    /\ pc' = "bt_loop"
    /\ UNCHANGED <<call, run, conflicts0, k, skip, min_group_size, n, remaining,
                   sizes, i, group_sizes, sols, best, res, first, err>>

\* The outermost backtrack has returned: make_assignments returns sols.
MA_Return ==
    /\ pc = "bt_return"
    /\ stack = <<>>
    /\ pc' = "done"
    /\ UNCHANGED <<call, run, conflicts, conflicts0, k, skip, min_group_size, n,
                   remaining, sizes, i, group_sizes, sols, curr, best, stack,
                   res, first, err>>

\* The caller calls make_assignments again with the matrix it holds and the
\* same min_group_size.
MA_Again ==
    /\ pc = "done"
    /\ call = "make_assignments"
    /\ run = 1
    /\ first' = sols
    /\ run' = 2
    /\ pc' = "ma_entry"
    /\ UNCHANGED <<call, conflicts, conflicts0, k, skip, min_group_size, n, remaining,
                   sizes, i, group_sizes, sols, curr, best, stack, res, err>>

----------------------------------------------------------------------------

Next ==
    \/ PG_Call
    \/ SA_Call
    \/ GS_DivideByZero
    \/ GS_Start
    \/ GS_Step
    \/ GS_Break
    \/ GS_Return
    \/ MA_Panic
    \/ MA_Start
    \/ BT_Record
    \/ BT_Options
    \/ BT_Commit
    \/ BT_LoopEnd
    \/ BT_Undo
    \/ MA_Return
    \/ MA_Again

Spec == Init /\ [][Next]_vars

\* The steps of a call of make_assignments, its call of group_sizes included.
MakeAssignmentsStep ==
    \/ GS_DivideByZero
    \/ GS_Start
    \/ GS_Step
    \/ GS_Break
    \/ GS_Return
    \/ MA_Panic
    \/ MA_Start
    \/ BT_Record
    \/ BT_Options
    \/ BT_Commit
    \/ BT_LoopEnd
    \/ BT_Undo
    \/ MA_Return
    \/ MA_Again

\* The call is one thread of control with no suspension point: a step that
\* can be taken is taken.
FairSpec == Spec /\ WF_vars(MakeAssignmentsStep)

----------------------------------------------------------------------------
(* What the results are measured against: groups, rounds and sequences    *)
(* defined from the problem statement, independently of the search.        *)

RECURSIVE Ascending(_)
\* The members of S as an ascending index list.
Ascending(S) ==
    IF S = {} THEN <<>>
    ELSE LET lo == CHOOSE x \in S : \A y \in S : x <= y
         IN <<lo>> \o Ascending(S \ {lo})

RECURSIVE Sum(_)
Sum(s) == IF s = <<>> THEN 0 ELSE s[1] + Sum(Tail(s))

RECURSIVE Choose(_, _)
\* The binomial coefficient C(a, b).
Choose(a, b) ==
    IF b = 0 THEN 1
    ELSE IF a = 0 THEN 0
    ELSE Choose(a - 1, b - 1) + Choose(a - 1, b)

\* The unordered pairs of distinct members of group g.
GroupPairs(g) == {{g[x], g[y]} : x \in 1..Len(g), y \in 1..Len(g)} \ {{v} : v \in Range(g)}

RoundPairs(r) == UNION {GroupPairs(r[p]) : p \in 1..Len(r)}

SeqPairs(s) == UNION {RoundPairs(s[x]) : x \in 1..Len(s)}

\* The unordered pairs that conflict in matrix c (the diagonal aside).
ConflictPairs(c) ==
    {{q[1], q[2]} : q \in {p \in (DOMAIN c) \X (DOMAIN c) :
                            p[1] # p[2] /\ (c[p[1]][p[2]] \/ c[p[2]][p[1]])}}

\* Round r partitions the vertices of c into groups of the planned sizes,
\* none holding a pair that conflicts in c.
RoundOK(r, plan, c) ==
    /\ Len(r) = Len(plan)
    /\ \A p \in 1..Len(r) : Len(r[p]) = plan[p]
    /\ \A p \in 1..Len(r) : Cardinality(Range(r[p])) = Len(r[p])
    /\ \A p \in 1..Len(r) : \A q \in 1..Len(r) :
           p # q => Range(r[p]) \cap Range(r[q]) = {}
    /\ UNION {Range(r[p]) : p \in 1..Len(r)} = DOMAIN c
    /\ RoundPairs(r) \cap ConflictPairs(c) = {}

\* Every valid round, each group an ascending index list.
AllRounds(plan, c) ==
    LET places == 1..Len(plan)
        F == {f \in [DOMAIN c -> places] :
                \A p \in places : Cardinality({v \in DOMAIN c : f[v] = p}) = plan[p]}
        R == {[p \in places |-> Ascending({v \in DOMAIN c : f[v] = p})] : f \in F}
    IN {r \in R : RoundPairs(r) \cap ConflictPairs(c) = {}}

RECURSIVE ValidSeqs(_, _)
\* The valid sequences of exactly len rounds drawn from rounds.
ValidSeqs(rounds, len) ==
    IF len = 0 THEN {<<>>}
    ELSE {Append(sr[1], sr[2]) :
            sr \in {x \in ValidSeqs(rounds, len - 1) \X rounds :
                      SeqPairs(x[1]) \cap RoundPairs(x[2]) = {}}}

\* The size-kk conflict-free subsets of the vertices not skipped.
AllGroups(c, kk, sk) ==
    {Ascending(S) : S \in {T \in SUBSET {v \in DOMAIN c : ~sk[v]} :
                             /\ Cardinality(T) = kk
                             /\ \A a \in T : \A b \in T :
                                    a # b => {a, b} \notin ConflictPairs(c)}}

\* Matrix c has as many columns in every row as it has rows.
IsSquare(c) == \A r \in DOMAIN c : DOMAIN c[r] = DOMAIN c

\* Matrix c is square and conflict(a, b) = conflict(b, a) throughout.
IsSymmetric(c) ==
    /\ IsSquare(c)
    /\ \A a \in DOMAIN c : \A b \in DOMAIN c : c[a][b] = c[b][a]

\* make_assignments was called as its preconditions demand.
GoodCall ==
    /\ call = "make_assignments"
    /\ NRows(conflicts0) >= 1
    /\ IsSymmetric(conflicts0)
    /\ 1 <= min_group_size
    /\ min_group_size <= NRows(conflicts0)

Returned == pc = "done" /\ call = "make_assignments"

----------------------------------------------------------------------------
(* Claims *)

\* C1: for every n >= 1, every minSize in 1..n and every symmetric relation,
\* make_assignments returns exactly the valid sequences of maximum length:
\* all returned sequences have one length L, no valid sequence is longer
\* than L, and every valid sequence of length L is returned.
C1_ExactlyTheLongest ==
    (Returned /\ GoodCall) =>
        /\ sols # <<>>
        /\ LET L == Len(sols[1])
               rounds == AllRounds(group_sizes, conflicts0)
           IN /\ \A x \in 1..Len(sols) : Len(sols[x]) = L
              /\ ValidSeqs(rounds, L + 1) = {}
              /\ Range(sols) = ValidSeqs(rounds, L)

\* C2: in every sequence make_assignments returns, no unordered pair of
\* items shares a group in more than one round, and no pair that conflicts
\* in the relation the caller supplied shares a group at all.
C2_NoRepeatedPair ==
    (Returned /\ GoodCall) =>
        \A x \in 1..Len(sols) :
            /\ \A r1 \in 1..Len(sols[x]) : \A r2 \in 1..Len(sols[x]) :
                   r1 # r2 => RoundPairs(sols[x][r1]) \cap RoundPairs(sols[x][r2]) = {}
            /\ SeqPairs(sols[x]) \cap ConflictPairs(conflicts0) = {}

\* C2 witness: a returned sequence of two or more rounds for a relation
\* that came with a conflicting pair.
C2_Witness ==
    /\ Returned /\ GoodCall
    /\ ConflictPairs(conflicts0) # {}
    /\ \E x \in 1..Len(sols) : Len(sols[x]) >= 2

\* C3: when potential_groups, single_assignment or make_assignments
\* returns, every entry of the matrix, the diagonal included, is what it
\* was at call entry.
C3_MatrixRestored ==
    (pc = "done" /\ run = 1 /\ IsSymmetric(conflicts0)) =>
        conflicts = conflicts0

\* C4: for every k >= 1, every skip set and every symmetric relation,
\* potential_groups returns exactly the size-k conflict-free subsets of the
\* items not skipped, each once, as an ascending list; C(n, k) of them when
\* nothing conflicts and nothing is skipped.
C4_AllGroupsOnce ==
    (pc = "done" /\ call = "potential_groups") =>
        /\ Range(res) = AllGroups(conflicts0, k, skip)
        /\ Len(res) = Cardinality(Range(res))
        /\ (ConflictPairs(conflicts0) = {} /\ skip = NoSkip(NRows(conflicts0)))
               => Len(res) = Choose(NRows(conflicts0), k)

\* C5: every round single_assignment returns is a partition of the item
\* set into pairwise disjoint groups of the planned sizes, position by
\* position, no group holding a pair that conflicts in the relation passed
\* in; both for a direct call and for the calls make_assignments makes.
C5_RoundsArePartitions ==
    /\ (pc = "done" /\ call = "single_assignment") =>
           \A x \in 1..Len(res) : RoundOK(res[x], group_sizes, conflicts0)
    /\ (pc = "bt_loop" /\ GoodCall) =>
           \A x \in 1..Len(stack[Len(stack)].options) :
               RoundOK(stack[Len(stack)].options[x], group_sizes, conflicts)

\* C5 witness: a direct call returned rounds of two or more groups under a
\* relation with a conflicting pair.
C5_Witness ==
    /\ pc = "done" /\ call = "single_assignment"
    /\ res # <<>>
    /\ Len(group_sizes) >= 2
    /\ ConflictPairs(conflicts0) # {}

\* C6: for 1 <= minSize <= n, group_sizes(n, minSize) has floor(n / minSize)
\* elements that sum to n, each at least minSize, the largest and the
\* smallest at most 1 apart; group_sizes(7, 2) = [3, 2, 2] and
\* group_sizes(5, 3) = [5].
C6_SizePlan ==
    (pc = "gs_return" /\ 1 <= min_group_size /\ min_group_size <= n) =>
        /\ Len(sizes) = n \div min_group_size
        /\ Sum(sizes) = n
        /\ \A x \in 1..Len(sizes) : sizes[x] >= min_group_size
        /\ \A x \in 1..Len(sizes) : \A y \in 1..Len(sizes) : sizes[x] - sizes[y] <= 1
        /\ (n = 7 /\ min_group_size = 2) => sizes = <<3, 2, 2>>
        /\ (n = 5 /\ min_group_size = 3) => sizes = <<5>>

\* C6 witness: the leftover went round the plan more than once.
C6_Witness ==
    /\ pc = "gs_return"
    /\ 1 <= min_group_size /\ min_group_size <= n
    /\ Len(sizes) >= 2
    /\ n % min_group_size > Len(sizes)

\* The inputs the specification calls configuration errors.
EmptyPopulation == NRows(conflicts0) = 0
NotSquare == ~IsSquare(conflicts0)
NotSymmetric == ~IsSymmetric(conflicts0)
InfeasibleMinimum == min_group_size > NRows(conflicts0)

\* The call is at its entry or has panicked, and the matrix is untouched.
RejectedAtStart ==
    /\ pc \in {"ma_entry", "panic"}
    /\ conflicts = conflicts0
    /\ pc = "panic" => err = AssertFailure(conflicts0, min_group_size)

\* C7: make_assignments reports an empty population, a malformed relation
\* (not square, or not symmetric) and an infeasible minimum at the start of
\* the call; none of these inputs reaches the search or changes the matrix.
C7_AllErrorsAtStart ==
    (call = "make_assignments"
     /\ (EmptyPopulation \/ NotSquare \/ NotSymmetric \/ InfeasibleMinimum))
        => RejectedAtStart

\* C7 as amended: make_assignments reports an empty population, a relation
\* that is not square and an infeasible minimum at the start of the call;
\* none of these inputs reaches the search or changes the matrix.
C7_ErrorsAtStart ==
    (call = "make_assignments"
     /\ (EmptyPopulation \/ NotSquare \/ InfeasibleMinimum))
        => RejectedAtStart

\* C7 witness: a matrix that is not square was refused.
C7_Witness ==
    /\ call = "make_assignments"
    /\ pc = "panic"
    /\ NRows(conflicts0) > 0
    /\ NotSquare
    /\ err = "Conflicts matrix must have matching dimensions (N x N)"

\* C8: group_sizes(n, minSize) with minSize > n is rejected; it never
\* returns an empty plan for a nonzero population.
C8_RejectsOversizedMinimum ==
    (call = "group_sizes" /\ n > 0 /\ min_group_size > n) =>
        /\ pc \in {"gs_entry", "panic"}
        /\ ~(pc = "done" /\ group_sizes = <<>>)

\* C9: make_assignments called twice in a row on the matrix the caller
\* holds, with the same minSize, returns the same result both times.
C9_SameResultAgain ==
    (Returned /\ GoodCall /\ run = 2) => sols = first

\* C9 witness: the second call has returned, having started from a matrix
\* that the first call left different from the one supplied.
C9_Witness ==
    /\ Returned /\ GoodCall /\ run = 2
    /\ conflicts # conflicts0
    /\ \E x \in 1..Len(sols) : Len(sols[x]) >= 2

\* C10: for every input that meets the preconditions the search ends: each
\* committed round adds at least one new conflicting pair, the sequence
\* never holds more than n(n-1)/2 rounds, and the call returns.
C10_Terminates ==
    /\ [][(GoodCall /\ BT_Commit) =>
            Cardinality(ConflictPairs(conflicts')) > Cardinality(ConflictPairs(conflicts))]_vars
    /\ [](GoodCall =>
            2 * Len(curr) <= NRows(conflicts0) * (NRows(conflicts0) - 1))
    /\ (GoodCall /\ pc = "ma_entry") ~> (pc = "done")

\* C10 witness: the search holds three committed rounds.
C10_Witness ==
    /\ GoodCall
    /\ pc = "backtrack"
    /\ Len(curr) >= 3

====
